---- MODULE Spec2Model ----
(***************************************************************************)
(* A model of the io-utils crate: the inverse multiplexers IMuxSync and    *)
(* IMuxAsync (src/src/imux.rs) and the ThreadedReader / ThreadedWriter     *)
(* pair built on IMuxAsync (src/src/threaded.rs).                          *)
(*                                                                         *)
(* Spec          one write + flush on a multiplexer and one read on its    *)
(*               peer over the same FIFO channels, step by step, with      *)
(*               channels that may be closed at any moment.                *)
(* FairMux       Spec with the calling thread (task) scheduled fairly.     *)
(* FairChunks    Spec with the per-channel units scheduled fairly.         *)
(* SpecAny       Spec over any Vec of channels, the empty one included.    *)
(* SpecCounting  Spec over CountingIO channels that have counted before,   *)
(*               with reset() called before the write.                     *)
(* SpecThreaded  a ThreadedWriter lineage and the peer's ThreadedReader    *)
(*               lineage with its pump: clones, writes, reads and drops    *)
(*               of handles, interleaved, over connections that may fail.  *)
(* FairThreaded  SpecThreaded with the reader's side scheduled fairly.     *)
(* SpecIdentity  a ThreadedWriter lineage cloned past the width of its     *)
(*               identity counter.                                         *)
(* SpecAligned   the writer lineage and the reader lineage cloned in step  *)
(*               past the width of the identity counter.                   *)
(* SpecSeq       a sequence of messages written and flushed on one         *)
(*               multiplexer and read on its peer, on sound channels.      *)
(* SpecFifo      SpecThreaded without drops and failures, a write call     *)
(*               shown also while it waits for the writer lock.            *)
(* FairFifo      SpecFifo with the writing threads scheduled fairly.       *)
(***************************************************************************)
EXTENDS Integers, Sequences, FiniteSets, TLC

\* const MIN_CHUNK_SIZE: usize = 8192;
MIN_CHUNK_SIZE == 8192

\* Bounds of the model.
MaxChannels == 2
MaxBlocks == 2
MaxFaults == 2
MaxClones == 1
MaxMsgs == 2

Min(a, b) == IF a < b THEN a ELSE b
Max(a, b) == IF a > b THEN a ELSE b

Forms == {"sync", "async"}

\* Message lengths: empty, one byte, just below, at and just above
\* MIN_CHUNK_SIZE, and one byte more than MaxBlocks full chunks.
Lens == {0, 1, MIN_CHUNK_SIZE - 1, MIN_CHUNK_SIZE, MIN_CHUNK_SIZE + 1,
         MaxBlocks * MIN_CHUNK_SIZE + 1}

(***************************************************************************)
(* Byte buffers.  A buffer (a Vec<u8>, a slice, the bytes in a stream) is  *)
(* kept run-length encoded: a sequence of runs, each either hi - lo copies *)
(* of the byte `id` (src = "const", lo = 0) or the bytes lo .. hi-1 of the *)
(* application payload number `id` (src = "payload").  Adjacent runs that  *)
(* continue each other are merged, so equal buffers have equal encodings.  *)
(***************************************************************************)
ConstRun(b, k) == [src |-> "const", id |-> b, lo |-> 0, hi |-> k]
PayloadRun(p, lo, hi) == [src |-> "payload", id |-> p, lo |-> lo, hi |-> hi]

\* The value of byte i (0-based) of payload p.
PayloadByte(p, i) == (3 + 7 * i + 11 * p) % 251

RunLen(r) == r.hi - r.lo

\* buf.len()
RECURSIVE BLen(_)
BLen(b) == IF b = << >> THEN 0 ELSE RunLen(Head(b)) + BLen(Tail(b))

TakeRun(r, k) == [r EXCEPT !.hi = r.lo + k]
DropRun(r, k) == IF r.src = "const" THEN [r EXCEPT !.hi = r.hi - k]
                 ELSE [r EXCEPT !.lo = r.lo + k]

\* &buf[..k]
RECURSIVE Take(_, _)
Take(b, k) ==
    IF k <= 0 \/ b = << >> THEN << >>
    ELSE IF RunLen(Head(b)) <= k
         THEN <<Head(b)>> \o Take(Tail(b), k - RunLen(Head(b)))
         ELSE <<TakeRun(Head(b), k)>>

\* &buf[k..]
RECURSIVE Drop(_, _)
Drop(b, k) ==
    IF k <= 0 \/ b = << >> THEN b
    ELSE IF RunLen(Head(b)) <= k
         THEN Drop(Tail(b), k - RunLen(Head(b)))
         ELSE <<DropRun(Head(b), k)>> \o Tail(b)

Joinable(r, s) == r.src = s.src /\ r.id = s.id /\ (r.src = "const" \/ r.hi = s.lo)
JoinRuns(r, s) == IF r.src = "const" THEN [r EXCEPT !.hi = r.hi + RunLen(s)]
                  ELSE [r EXCEPT !.hi = s.hi]

\* The bytes of a followed by the bytes of b.
Cat(a, b) ==
    IF a = << >> THEN b
    ELSE IF b = << >> THEN a
    ELSE IF Joinable(a[Len(a)], Head(b))
         THEN SubSeq(a, 1, Len(a) - 1) \o <<JoinRuns(a[Len(a)], Head(b))>> \o Tail(b)
         ELSE a \o b

\* The value of a set that has one element: an intermediate value is
\* computed once and then used by name.
The(S) == CHOOSE x \in S : TRUE

\* The buffer holding the given bytes (numbers 0..255).
RECURSIVE Lit(_)
Lit(bytes) == IF bytes = << >> THEN << >>
              ELSE The({Cat(<<ConstRun(Head(bytes), 1)>>, rest) :
                           rest \in {Lit(Tail(bytes))}})

\* The bytes (numbers 0..255) of a buffer.
RECURSIVE Bytes(_)
Bytes(b) ==
    IF b = << >> THEN << >>
    ELSE LET r == Head(b) IN
         [i \in 1..RunLen(r) |->
             IF r.src = "const" THEN r.id ELSE PayloadByte(r.id, r.lo + i - 1)]
         \o Bytes(Tail(b))

\* vec![0u8; len]
Zeros(len) == IF len = 0 THEN << >> ELSE <<ConstRun(0, len)>>

\* &buf[lo..hi]
Slice(b, lo, hi) == Take(Drop(b, lo), hi - lo)

\* Mutant: the bytes are stored at the start of buf, whatever the chunk.
Fill_at_start(b, lo, s) == Cat(s, Drop(b, BLen(s)))

\* buf after the bytes s were stored at buf[lo..lo + s.len()]
Fill(b, lo, s) == Cat(Cat(Take(b, lo), s), Drop(b, lo + BLen(s)))

\* Application payload number p, of the given length.
Payload(p, len) == IF len = 0 THEN << >> ELSE <<PayloadRun(p, 0, len)>>

(***************************************************************************)
(* Pure helpers of imux.rs                                                 *)
(***************************************************************************)

\* (len as f64 / n as f64).ceil() as usize; the conversions to f64 are exact
\* for the lengths of this model (far below 2^53).
CeilDiv(len, n) == IF len % n = 0 THEN len \div n ELSE (len \div n) + 1

\* Mutant: the quotient is truncated instead of rounded up.
chunk_size_floor(n, len) == Max(MIN_CHUNK_SIZE, len \div n)

\* fn chunk_size(&self, len: usize) -> usize
chunk_size(n, len) == Max(MIN_CHUNK_SIZE, CeilDiv(len, n))

\* buf.chunks(chunk_size): the ranges [lo, hi) of the slices, in order
\* (0-based, half open); the last one may be shorter, none is empty.
chunks(len, cs) == [k \in 1..CeilDiv(len, cs) |->
                      [lo |-> (k - 1) * cs, hi |-> Min(k * cs, len)]]

\* buf.chunks(chunk_size).zip(self.channels.iter_mut()): pairs a chunk with
\* a channel while both iterators have items; task i belongs to channel i.
zip_chunks(n, len) ==
    LET cs == chunk_size(n, len)
        ch == chunks(len, cs)
    IN  [i \in 0..(Min(Len(ch), n) - 1) |-> ch[i + 1]]

\* u64::to_le_bytes: 8 bytes, least significant first.
RECURSIVE le_bytes(_, _)
le_bytes(x, k) == IF k = 0 THEN <<>> ELSE <<x % 256>> \o le_bytes(x \div 256, k - 1)

\* Mutant: the bytes of the number above.
to_le_bytes_next(x) == le_bytes(x + 1, 8)

to_le_bytes(x) == le_bytes(x, 8)

\* u64::from_le_bytes
RECURSIVE from_le_bytes(_)
from_le_bytes(b) == IF b = <<>> THEN 0 ELSE Head(b) + 256 * from_le_bytes(Tail(b))

Ok == [ok |-> TRUE, ch |-> -1, kind |-> "none"]
Err(i, kind) == [ok |-> FALSE, ch |-> i, kind |-> kind]
Pending == [ok |-> FALSE, ch |-> -1, kind |-> "pending"]
NoRet == [ok |-> FALSE, ch |-> -1, kind |-> "running"]

VARIABLES
    form,       \* which multiplexer type is used on both sides
    channels,   \* channels[i]: [out, wire, open, flushes] of stream i
    faults,     \* number of channels closed so far
    wpc,        \* position of the caller of write / flush
    wbuf,       \* the buf argument of write
    whdr,       \* the result of writing the length header
    wres,       \* wres[i]: the result of the chunk write spawned for channel i
    worder,     \* channels in the order their chunk writes completed
    wret,       \* what write returned
    fret,       \* what flush returned
    rpc,        \* position of the caller of read
    rhdr,       \* the result of reading the length header
    rbuf,       \* the buf of read
    rres,       \* rres[i]: the result of the chunk read spawned for channel i
    rorder,     \* channels in the order their chunk reads completed
    rret        \* what read returned

muxVars == <<form, channels, faults, wpc, wbuf, whdr, wres, worder, wret, fret,
             rpc, rhdr, rbuf, rres, rorder, rret>>

\* The frames of the single write / flush and read calls of Spec.
muxCall == <<faults, wpc, wbuf, whdr, wres, worder, wret, fret,
             rpc, rhdr, rbuf, rres, rorder, rret>>

VARIABLES
    count,      \* ThreadedWriter.count: the shared AtomicU8
    writers,    \* writers[w]: [num, pc, sent] of the w-th writer handle made
    wlock,      \* holder of the Mutex around the writer's IMuxAsync, -1: free
    wirelog,    \* history: each multiplexer write made, [by, msg]
    senders,    \* the registry Vec<Sender>: senders[j] is the inbox's handle
    slock,      \* holder of the Mutex around the registry
    readers,    \* readers[r]: position of the r-th reader handle made
    inbox,      \* inbox[r]: the queue of the channel created for handle r
    got,        \* got[r]: what the read calls of handle r returned, in order
    hrefs,      \* strong count of the Arc<JoinHandle>
    srefs,      \* strong count of the Arc around the registry
    ppc,        \* position of the background pump (read_loop)
    pwhy,       \* why the pump stopped
    thread_num, \* read_loop: the identity message read
    msg         \* read_loop: the body message read

thrVars == <<count, writers, wlock, wirelog, senders, slock, readers, inbox, got,
             hrefs, srefs, ppc, pwhy, thread_num, msg>>

vars == <<muxVars, thrVars>>

N == Cardinality(DOMAIN channels)
Chan == DOMAIN channels

\* `count` is the counter of the CountingIO wrapper around the stream.
NewChannel == [out |-> <<>>, wire |-> <<>>, open |-> TRUE, flushes |-> 0, count |-> 0]

\* No ThreadedReader / ThreadedWriter has been constructed.
NoThreaded ==
    /\ count = 0 /\ writers = << >> /\ wlock = -1 /\ wirelog = << >>
    /\ senders = << >> /\ slock = "free" /\ readers = << >> /\ inbox = << >>
    /\ got = << >> /\ hrefs = 0 /\ srefs = 0 /\ ppc = "none" /\ pwhy = "none"
    /\ thread_num = << >> /\ msg = << >>

InitMux ==
    /\ form \in Forms
    /\ \E n \in 1..MaxChannels : channels = [i \in 0..(n - 1) |-> NewChannel]
    /\ faults = 0
    /\ wpc = "write"
    /\ \E len \in Lens : wbuf = Payload(0, len)
    /\ whdr = NoRet
    /\ wres = [i \in {} |-> Pending]
    /\ worder = << >>
    /\ wret = NoRet
    /\ fret = NoRet
    /\ rpc = "read"
    /\ rhdr = NoRet
    /\ rbuf = << >>
    /\ rres = [i \in {} |-> Pending]
    /\ rorder = << >>
    /\ rret = NoRet
    /\ NoThreaded

(***************************************************************************)
(* The streams under the multiplexer.  A stream is any Write (Read) object;*)
(* the examples use BufWriter / BufReader over a TcpStream.  `out` is what *)
(* write_all has accepted and the stream still holds, `wire` is what the   *)
(* peer can read, in FIFO order.                                           *)
(***************************************************************************)

\* What a buffering stream does with the bytes of one write_all: it keeps
\* them with what it holds ("hold"), hands what it holds to the peer and
\* keeps the new bytes ("pass_old"), or hands everything over ("pass_all",
\* which is all an unbuffered stream does).
Modes == {"hold", "pass_old", "pass_all"}

\* Mutant: the stream is flushed at the end of each write_all.
write_all_flushed(c, i, bytes, mode) ==
    IF c.open
    THEN [chan |-> [c EXCEPT !.wire = Cat(Cat(c.wire, c.out), bytes), !.out = << >>,
                             !.flushes = c.flushes + 1],
          res |-> Ok]
    ELSE [chan |-> c, res |-> Err(i, "BrokenPipe")]

\* writer.write_all(bytes) on stream i: the new state of the stream and the
\* io::Result.
write_all(c, i, bytes, mode) ==
    IF c.open
    THEN [chan |-> CASE mode = "hold" -> [c EXCEPT !.out = Cat(c.out, bytes)]
                     [] mode = "pass_old" -> [c EXCEPT !.wire = Cat(c.wire, c.out),
                                                       !.out = bytes]
                     [] OTHER -> [c EXCEPT !.wire = Cat(Cat(c.wire, c.out), bytes),
                                           !.out = << >>],
          res |-> Ok]
    ELSE [chan |-> c, res |-> Err(i, "BrokenPipe")]

\* impl Write for CountingIO (write_all calls write until all is accepted):
\* let bytes = self.inner.write(buf)?; self.count += bytes as u64;
counting_write_all(c, i, bytes, mode) ==
    LET r == write_all(c, i, bytes, mode) IN
    [chan |-> IF r.res.ok THEN [r.chan EXCEPT !.count = c.count + BLen(bytes)]
              ELSE r.chan,
     res |-> r.res]

\* IMuxSync::count / IMuxAsync::count over the channels 0..k-1:
\* self.channels.iter().map(CountingIO::count).sum()
RECURSIVE count_sum(_, _)
count_sum(chs, k) == IF k = 0 THEN 0 ELSE count_sum(chs, k - 1) + chs[k - 1].count

mux_count(chs) == count_sum(chs, Cardinality(DOMAIN chs))

\* IMuxSync::reset / IMuxAsync::reset:
\* self.channels.iter_mut().for_each(CountingIO::reset)
mux_reset(chs) == [i \in DOMAIN chs |-> [chs[i] EXCEPT !.count = 0]]

\* Mutant: the read takes everything the stream has, and keeps the first k
\* bytes of it.
read_exact_greedy(c, i, k) ==
    IF BLen(c.wire) >= k
    THEN [chan |-> [c EXCEPT !.wire = << >>],
          got |-> Take(c.wire, k), res |-> Ok]
    ELSE [chan |-> [c EXCEPT !.wire = << >>],
          got |-> c.wire, res |-> Err(i, "UnexpectedEof")]

\* reader.read_exact(k bytes) on stream i, when it does not block: the new
\* state of the stream, the bytes placed in the slice, and the io::Result.
\* A closed stream with fewer than k bytes left gives UnexpectedEof after
\* handing over what was left.
read_exact(c, i, k) ==
    IF BLen(c.wire) >= k
    THEN [chan |-> [c EXCEPT !.wire = Drop(c.wire, k)],
          got |-> Take(c.wire, k), res |-> Ok]
    ELSE [chan |-> [c EXCEPT !.wire = << >>],
          got |-> c.wire, res |-> Err(i, "UnexpectedEof")]

\* read_exact returns (rather than waits for more bytes).
read_ready(c, k) == BLen(c.wire) >= k \/ ~c.open

\* stream.flush(): everything the stream holds goes to the peer.
flush_stream(c, i) ==
    IF c.open
    THEN [chan |-> [c EXCEPT !.wire = Cat(c.wire, c.out), !.out = << >>,
                             !.flushes = c.flushes + 1], res |-> Ok]
    ELSE [chan |-> [c EXCEPT !.flushes = c.flushes + 1], res |-> Err(i, "BrokenPipe")]

\* The connection of stream i is closed: bytes not yet handed over are lost,
\* bytes already on the wire can still be read.
Close(i) ==
    /\ faults < MaxFaults
    /\ channels[i].open
    /\ channels' = [channels EXCEPT ![i].open = FALSE, ![i].out = << >>]
    /\ faults' = faults + 1
    /\ UNCHANGED <<form, wpc, wbuf, whdr, wres, worder, wret, fret,
                   rpc, rhdr, rbuf, rres, rorder, rret>>
    /\ UNCHANGED thrVars

(***************************************************************************)
(* Joining the per-channel units of one call                               *)
(***************************************************************************)

\* The first error of the results taken in the given order, Ok if none:
\* results.into_iter().collect::<Result<Vec<_>, _>>()
RECURSIVE first_err(_, _)
first_err(order, res) ==
    IF order = << >> THEN Ok
    ELSE IF ~res[Head(order)].ok THEN res[Head(order)]
    ELSE first_err(Tail(order), res)

\* IMuxSync: thread::scope(|s| { ... s.spawn(move |_| io(chunk)); ... })
\* .map_err(..)?  The closure's io::Result is the thread's return value and
\* no handle is joined for it; scope() is Err only when a thread panicked,
\* and read_exact / write_all do not panic.
scope_result(order, res) == Ok

\* Mutant: the results of the units are not looked at.
join_all_swallow(order, res) == Ok

\* IMuxAsync: FuturesUnordered yields the results in completion order;
\* .collect::<Vec<_>>().await.into_iter().collect::<Result<Vec<_>, _>>()?
join_all_result(order, res) == first_err(order, res)

join_result(order, res) ==
    IF form = "sync" THEN scope_result(order, res) ELSE join_all_result(order, res)

\* The completion order of the units: FuturesUnordered hands the results on
\* in that order; the threads of thread::scope hand nothing on.
completed(order, i) == IF form = "async" THEN Append(order, i) ELSE order

\* Mutant: the join waits for every unit to succeed.
AllDone_ok(res) == \A i \in DOMAIN res : res[i].ok

\* Every thread of the scope has ended / every future has been collected.
AllDone(res) == \A i \in DOMAIN res : res[i] # Pending

\* Mutant: the units are run one after the other, in channel order (as a loop
\* that awaits each transfer would).
runnable_in_turn(res, i) ==
    /\ i \in DOMAIN res
    /\ res[i] = Pending
    /\ \A j \in DOMAIN res : j < i => res[j] # Pending

\* Unit i of a call can take its step: every spawned thread runs, and
\* FuturesUnordered polls every future that has not yet yielded.
runnable(res, i) == i \in DOMAIN res /\ res[i] = Pending

\* Mutant: the collection ends at the first failed result (as try_join_all
\* or try_collect would).
collected_or_failed(res) == AllDone(res) \/ \E i \in DOMAIN res : res[i] # Pending /\ ~res[i].ok

\* IMuxAsync: FuturesUnordered<_>.collect::<Vec<_>>().await is ready when the
\* stream has yielded the result of every future.
collected(res) == AllDone(res)

\* The call goes on past its units: thread::scope returns when every thread
\* it spawned has ended, the awaited collection when it is ready.
joined(res) == IF form = "sync" THEN AllDone(res) ELSE collected(res)

(***************************************************************************)
(* write(buf) and flush()                                                  *)
(***************************************************************************)

\* Mutant: the units are started whatever became of the header.
started_anyway(hdr, n, len) == DOMAIN zip_chunks(n, len)

\* The units started by a call: `?` on the Result of the header transfer
\* returns from the call before the chunk plan is made.
started(hdr, n, len) == IF hdr.ok THEN DOMAIN zip_chunks(n, len) ELSE {}

\* self.channels[0].write_all(&(buf.len() as u64).to_le_bytes())?; then the
\* chunk plan is made and one unit per (chunk, channel) pair is started.
\* Indexing an empty Vec panics.
WriteHeader ==
    /\ wpc = "write"
    /\ IF N = 0
       THEN wpc' = "panicked" /\ UNCHANGED <<channels, whdr, wres, wret>>
       ELSE \E mode \in Modes :
       LET r == counting_write_all(channels[0], 0, Lit(to_le_bytes(BLen(wbuf))), mode) IN
         /\ channels' = [channels EXCEPT ![0] = r.chan]
         /\ whdr' = r.res
         /\ wres' = [i \in started(r.res, N, BLen(wbuf)) |-> Pending]
         /\ IF r.res.ok
            THEN /\ wpc' = "chunks"
                 /\ wret' = wret
            ELSE /\ wpc' = "failed"
                 /\ wret' = r.res
    /\ UNCHANGED <<form, faults, wbuf, worder, fret, rpc, rhdr, rbuf, rres, rorder, rret>>
    /\ UNCHANGED thrVars

\* The unit of channel i: writer.write_all(chunk)
WriteChunk(i) ==
    /\ wpc = "chunks"
    /\ runnable(wres, i)
    /\ \E mode \in Modes, t \in {zip_chunks(N, BLen(wbuf))[i]} :
       \E r \in {counting_write_all(channels[i], i, Slice(wbuf, t.lo, t.hi), mode)} :
         /\ channels' = [channels EXCEPT ![i] = r.chan]
         /\ wres' = [wres EXCEPT ![i] = r.res]
    /\ worder' = completed(worder, i)
    /\ UNCHANGED <<form, faults, wpc, wbuf, whdr, wret, fret,
                   rpc, rhdr, rbuf, rres, rorder, rret>>
    /\ UNCHANGED thrVars

\* All units have finished: the call returns.
WriteJoin ==
    /\ wpc = "chunks"
    /\ joined(wres)
    /\ wret' = join_result(worder, wres)
    /\ wpc' = IF wret'.ok THEN "flush" ELSE "failed"
    /\ UNCHANGED <<form, channels, faults, wbuf, whdr, wres, worder, fret,
                   rpc, rhdr, rbuf, rres, rorder, rret>>
    /\ UNCHANGED thrVars

\* Mutant: the channels after one whose flush failed are not flushed.
flush_until_err ==
    [i \in Chan |->
        IF \E j \in Chan : j < i /\ ~flush_stream(channels[j], j).res.ok
        THEN [chan |-> channels[i], res |-> Ok]
        ELSE flush_stream(channels[i], i)]

\* The flush results of all channels, and the channels after it.
flush_all == [i \in Chan |-> flush_stream(channels[i], i)]

\* IMuxSync::flush collects the results in channel order, IMuxAsync::flush in
\* completion order; the first Err of that order is returned.
Flush ==
    /\ wpc = "flush"
    /\ channels' = [i \in Chan |-> flush_all[i].chan]
    /\ \E first \in Chan :
         /\ \/ form = "async"
            \/ \A j \in Chan : ~flush_all[j].res.ok => first <= j
         /\ fret' = IF \A j \in Chan : flush_all[j].res.ok THEN Ok
                    ELSE IF flush_all[first].res.ok
                         THEN flush_all[CHOOSE j \in Chan : ~flush_all[j].res.ok /\
                                   \A k \in Chan : ~flush_all[k].res.ok => j <= k].res
                         ELSE flush_all[first].res
    /\ wpc' = "done"
    /\ UNCHANGED <<form, faults, wbuf, whdr, wres, worder, wret,
                   rpc, rhdr, rbuf, rres, rorder, rret>>
    /\ UNCHANGED thrVars

(***************************************************************************)
(* read()                                                                  *)
(***************************************************************************)

\* self.channels[0].read_exact(&mut len_buf)?; buf = vec![0u8; len]; then the
\* chunk plan is made and one unit per (chunk, channel) pair is started.
\* Indexing an empty Vec panics.
ReadHeader ==
    /\ rpc = "read"
    /\ N > 0 => read_ready(channels[0], 8)
    /\ IF N = 0
       THEN rpc' = "panicked" /\ UNCHANGED <<channels, rhdr, rbuf, rres, rret>>
       ELSE
       LET r == read_exact(channels[0], 0, 8) IN
         /\ channels' = [channels EXCEPT ![0] = r.chan]
         /\ rhdr' = r.res
         /\ IF r.res.ok
            THEN LET len == from_le_bytes(Bytes(r.got)) IN
                 /\ rbuf' = Zeros(len)
                 /\ rres' = [i \in started(r.res, N, len) |-> Pending]
                 /\ rpc' = "chunks"
                 /\ rret' = rret
            ELSE /\ rbuf' = rbuf
                 /\ rres' = [i \in started(r.res, N, 0) |-> Pending]
                 /\ rpc' = "done"
                 /\ rret' = r.res
    /\ UNCHANGED <<form, faults, wpc, wbuf, whdr, wres, worder, wret, fret, rorder>>
    /\ UNCHANGED thrVars

\* The unit of channel i: reader.read_exact(chunk)
ReadChunk(i) ==
    /\ rpc = "chunks"
    /\ runnable(rres, i)
    /\ \E t \in {zip_chunks(N, BLen(rbuf))[i]} :
         /\ read_ready(channels[i], t.hi - t.lo)
         /\ \E r \in {read_exact(channels[i], i, t.hi - t.lo)} :
              /\ channels' = [channels EXCEPT ![i] = r.chan]
              /\ rbuf' = Fill(rbuf, t.lo, r.got)
              /\ rres' = [rres EXCEPT ![i] = r.res]
    /\ rorder' = completed(rorder, i)
    /\ UNCHANGED <<form, faults, wpc, wbuf, whdr, wres, worder, wret, fret,
                   rpc, rhdr, rret>>
    /\ UNCHANGED thrVars

\* All units have finished: the call returns Ok(buf), or the error (`?`
\* drops buf).
ReadJoin ==
    /\ rpc = "chunks"
    /\ joined(rres)
    /\ rret' = join_result(rorder, rres)
    /\ rbuf' = IF rret'.ok THEN rbuf ELSE << >>
    /\ rpc' = "done"
    /\ UNCHANGED <<form, channels, faults, wpc, wbuf, whdr, wres, worder, wret, fret,
                   rhdr, rres, rorder>>
    /\ UNCHANGED thrVars

Next ==
    \/ WriteHeader
    \/ \E i \in Chan : WriteChunk(i)
    \/ WriteJoin
    \/ Flush
    \/ ReadHeader
    \/ \E i \in Chan : ReadChunk(i)
    \/ ReadJoin
    \/ \E i \in Chan : Close(i)

Spec == InitMux /\ [][Next]_vars

\* The caller's thread (or task) runs: once the units it waits for have all
\* ended, the call goes on and returns.
FairMux == Spec /\ WF_vars(WriteJoin) /\ WF_vars(ReadJoin)

\* The units run: a thread whose I/O can proceed proceeds, and the executor
\* polls a task whose stream is ready.  Nothing is assumed of the peer, so a
\* stream may wait for bytes for ever.
FairChunks ==
    /\ Spec
    /\ \A i \in 0..(MaxChannels - 1) : WF_vars(WriteChunk(i)) /\ WF_vars(ReadChunk(i))

(***************************************************************************)
(* The multiplexer constructed over any Vec of channels: new() takes the   *)
(* Vec as it is, the empty one included.                                   *)
(***************************************************************************)

InitAny ==
    /\ form \in Forms
    /\ \E n \in 0..MaxChannels : channels = [i \in 0..(n - 1) |-> NewChannel]
    /\ faults = 0
    /\ wpc = "write"
    /\ \E len \in Lens : wbuf = Payload(0, len)
    /\ whdr = NoRet
    /\ wres = [i \in {} |-> Pending]
    /\ worder = << >>
    /\ wret = NoRet
    /\ fret = NoRet
    /\ rpc = "read"
    /\ rhdr = NoRet
    /\ rbuf = << >>
    /\ rres = [i \in {} |-> Pending]
    /\ rorder = << >>
    /\ rret = NoRet
    /\ NoThreaded

SpecAny == InitAny /\ [][Next]_vars

(***************************************************************************)
(* The multiplexer over counting channels that have carried traffic        *)
(* before: reset(), then one write and flush (examples/imux-server.rs).    *)
(***************************************************************************)

MaxPrior == 2

InitCounting ==
    /\ form \in Forms
    /\ \E n \in 1..MaxChannels : \E p \in 0..MaxPrior :
         channels = [i \in 0..(n - 1) |-> [NewChannel EXCEPT !.count = p * (i + 1)]]
    /\ faults = 0
    /\ wpc = "start"
    /\ \E len \in Lens : wbuf = Payload(0, len)
    /\ whdr = NoRet
    /\ wres = [i \in {} |-> Pending]
    /\ worder = << >>
    /\ wret = NoRet
    /\ fret = NoRet
    /\ rpc = "read"
    /\ rhdr = NoRet
    /\ rbuf = << >>
    /\ rres = [i \in {} |-> Pending]
    /\ rorder = << >>
    /\ rret = NoRet
    /\ NoThreaded

\* writer.reset(), called before the write.
Reset ==
    /\ wpc = "start"
    /\ channels' = mux_reset(channels)
    /\ wpc' = "write"
    /\ UNCHANGED <<form, faults, wbuf, whdr, wres, worder, wret, fret,
                   rpc, rhdr, rbuf, rres, rorder, rret>>
    /\ UNCHANGED thrVars

NextCounting ==
    \/ Reset
    \/ Next

SpecCounting == InitCounting /\ [][NextCounting]_vars

(***************************************************************************)
(* A sequence of messages: write calls one after the other on a            *)
(* multiplexer (with or without a flush in between) and read calls one     *)
(* after the other on its peer, over connections that stay up.  wirelog    *)
(* holds the buffers of the write calls that are over, got[0] the buffers  *)
(* returned by the read calls that are over.                               *)
(***************************************************************************)

MaxSeq == 2

\* Message lengths with different chunk plans: no chunk, one chunk, full
\* chunks and a short one, as many chunks as there are channels.
SeqLens == {0, 1, MIN_CHUNK_SIZE + 1, MaxBlocks * MIN_CHUNK_SIZE + 1}

InitSeq ==
    /\ form \in Forms
    /\ \E n \in 1..MaxChannels : channels = [i \in 0..(n - 1) |-> NewChannel]
    /\ faults = 0
    /\ wpc = "write"
    /\ \E len \in SeqLens : wbuf = Payload(1, len)
    /\ whdr = NoRet
    /\ wres = [i \in {} |-> Pending]
    /\ worder = << >>
    /\ wret = NoRet
    /\ fret = NoRet
    /\ rpc = "read"
    /\ rhdr = NoRet
    /\ rbuf = << >>
    /\ rres = [i \in {} |-> Pending]
    /\ rorder = << >>
    /\ rret = NoRet
    /\ count = 0 /\ writers = << >> /\ wlock = -1 /\ wirelog = << >>
    /\ senders = << >> /\ slock = "free" /\ readers = << >> /\ inbox = << >>
    /\ got = [r \in {0} |-> << >>]
    /\ hrefs = 0 /\ srefs = 0 /\ ppc = "none" /\ pwhy = "none"
    /\ thread_num = << >> /\ msg = << >>

\* The caller makes the next write call, after write or flush has returned.
NextWrite ==
    /\ wpc \in {"flush", "done", "failed"}
    /\ Len(wirelog) + 1 < MaxSeq
    /\ wirelog' = Append(wirelog, [by |-> 0, kind |-> "body", msg |-> wbuf])
    /\ \E len \in SeqLens : wbuf' = Payload(Len(wirelog) + 2, len)
    /\ wpc' = "write"
    /\ whdr' = NoRet
    /\ wres' = [i \in {} |-> Pending]
    /\ worder' = << >>
    /\ wret' = NoRet
    /\ UNCHANGED <<form, channels, faults, fret, rpc, rhdr, rbuf, rres, rorder, rret>>
    /\ UNCHANGED <<count, writers, wlock, senders, slock, readers, inbox, got,
                   hrefs, srefs, ppc, pwhy, thread_num, msg>>

\* The peer keeps what read returned and makes the next read call.
NextRead ==
    /\ rpc = "done"
    /\ Len(got[0]) + 1 < MaxSeq
    /\ got' = [got EXCEPT ![0] = Append(@, rbuf)]
    /\ rpc' = "read"
    /\ rhdr' = NoRet
    /\ rbuf' = << >>
    /\ rres' = [i \in {} |-> Pending]
    /\ rorder' = << >>
    /\ rret' = NoRet
    /\ UNCHANGED <<form, channels, faults, wpc, wbuf, whdr, wres, worder, wret, fret>>
    /\ UNCHANGED <<count, writers, wlock, wirelog, senders, slock, readers, inbox,
                   hrefs, srefs, ppc, pwhy, thread_num, msg>>

NextSeq ==
    \/ NextWrite
    \/ NextRead
    \/ WriteHeader
    \/ \E i \in Chan : WriteChunk(i)
    \/ WriteJoin
    \/ Flush
    \/ ReadHeader
    \/ \E i \in Chan : ReadChunk(i)
    \/ ReadJoin

SpecSeq == InitSeq /\ [][NextSeq]_vars

(***************************************************************************)
(* IMuxAsync::write and IMuxAsync::read as whole calls, for the threaded   *)
(* layer, which makes them one after the other under a lock (writer) or    *)
(* from a single task (pump).                                              *)
(***************************************************************************)

\* The chunk writes of a call whose header was written: the channels after
\* them and the call's result.
imux_write_chunks(c1, buf, t, mode) ==
    The({[chans |-> [i \in DOMAIN c1 |->
                       IF i \in DOMAIN t THEN unit[i].chan ELSE c1[i]],
          res |-> join_all_result([k \in 1..Cardinality(DOMAIN t) |-> k - 1],
                                  [i \in DOMAIN t |-> unit[i].res])] :
         unit \in {[i \in DOMAIN t |->
                      write_all(c1[i], i, Slice(buf, t[i].lo, t[i].hi), mode)]}})

\* writer.write(buf).await: the channels after the call and its result.
imux_write(chs, buf, mode) ==
    The({IF ~hdr.res.ok THEN [chans |-> chs, res |-> hdr.res]
         ELSE The({imux_write_chunks(c1, buf, t, mode) :
                      c1 \in {[chs EXCEPT ![0] = hdr.chan]},
                      t \in {zip_chunks(Cardinality(DOMAIN chs), BLen(buf))}}) :
         hdr \in {write_all(chs[0], 0, Lit(bytes), mode) :
                     bytes \in {to_le_bytes(len) : len \in {BLen(buf)}}}})

\* writer.flush().await
imux_flush(chs) ==
    LET f == [i \in DOMAIN chs |-> flush_stream(chs[i], i)]
        order == [k \in 1..Cardinality(DOMAIN chs) |-> k - 1]
    IN  [chans |-> [i \in DOMAIN chs |-> f[i].chan],
         res |-> join_all_result(order, [i \in DOMAIN chs |-> f[i].res])]

\* buf after the units 0..k-1 stored what they read.
RECURSIVE fill_all(_, _, _, _)
fill_all(b, t, unit, k) ==
    IF k = 0 THEN b
    ELSE Fill(fill_all(b, t, unit, k - 1), t[k - 1].lo, unit[k - 1].got)

\* reader.read().await: whether the call returns (every read_exact it makes
\* has its bytes or meets a closed stream), the channels after the call, the
\* buffer and the result.
imux_read(chs) ==
    LET n == Cardinality(DOMAIN chs)
        hdr == read_exact(chs[0], 0, 8)
        c1 == [chs EXCEPT ![0] = hdr.chan]
        len == from_le_bytes(Bytes(hdr.got))
        t == zip_chunks(n, len)
        unit == [i \in DOMAIN t |-> read_exact(c1[i], i, t[i].hi - t[i].lo)]
        order == [k \in 1..Cardinality(DOMAIN t) |-> k - 1]
        res == join_all_result(order, [i \in DOMAIN t |-> unit[i].res])
    IN  IF ~read_ready(chs[0], 8)
        THEN [ready |-> FALSE, chans |-> chs, buf |-> << >>, res |-> Pending]
        ELSE IF ~hdr.res.ok
        THEN [ready |-> TRUE, chans |-> c1, buf |-> << >>, res |-> hdr.res]
        ELSE [ready |-> \A i \in DOMAIN t : read_ready(c1[i], t[i].hi - t[i].lo),
              chans |-> [i \in DOMAIN chs |->
                            IF i \in DOMAIN t THEN unit[i].chan ELSE c1[i]],
              buf |-> IF res.ok THEN fill_all(Zeros(len), t, unit, Cardinality(DOMAIN t))
                      ELSE << >>,
              res |-> res]

(***************************************************************************)
(* ThreadedWriter and ThreadedReader (threaded.rs)                         *)
(***************************************************************************)

Count(f) == Cardinality(DOMAIN f)

\* vec.push(x), for a Vec indexed from 0
Push(f, x) == [i \in 0..Count(f) |-> IF i \in DOMAIN f THEN f[i] ELSE x]

\* The k-th buffer the application gives to the writer handle of identity
\* num: distinct contents; the buffers of a clone span more than one chunk.
Body(num, k) == Payload(16 * num + k + 1, 2 + num * MIN_CHUNK_SIZE)

\* ThreadedWriter::new(writer), ThreadedReader::new(reader) over the two ends
\* of the same channels; the pump is spawned and about to read.
InitThreaded ==
    /\ form = "async"
    /\ channels = [i \in 0..(MaxChannels - 1) |-> NewChannel]
    /\ faults = 0
    /\ wpc = "none" /\ wbuf = << >> /\ whdr = NoRet
    /\ wres = [i \in {} |-> Pending] /\ worder = << >> /\ wret = NoRet /\ fret = NoRet
    /\ rpc = "none" /\ rhdr = NoRet /\ rbuf = << >>
    /\ rres = [i \in {} |-> Pending] /\ rorder = << >> /\ rret = NoRet
    /\ count = 1
    /\ writers = [w \in {0} |-> [num |-> 0, pc |-> "idle", sent |-> 0]]
    /\ wlock = -1
    /\ wirelog = << >>
    /\ senders = [j \in {0} |-> 0]
    /\ slock = "free"
    /\ readers = [r \in {0} |-> "idle"]
    /\ inbox = [r \in {0} |-> << >>]
    /\ got = [r \in {0} |-> << >>]
    /\ hrefs = 1
    /\ srefs = 2
    /\ ppc = "read_id"
    /\ pwhy = "none"
    /\ thread_num = << >>
    /\ msg = << >>

WriterGone(w) == writers[w].pc \in {"dropped", "panicked"}

\* The streams of the writer's IMuxAsync are dropped with its last handle:
\* the connections are closed.
close_all(chs) == [i \in DOMAIN chs |-> [chs[i] EXCEPT !.open = FALSE, !.out = << >>]]

\* AtomicU8::fetch_add(1, SeqCst): the new value of the counter (the old one
\* is returned); u8 arithmetic wraps.
fetch_add(c) == (c + 1) % 256

\* impl Clone for ThreadedWriter, called on handle w
clone_writer(w) ==
    /\ writers[w].pc = "idle"
    /\ writers' = Push(writers, [num |-> count, pc |-> "idle", sent |-> 0])
    /\ count' = fetch_add(count)
    /\ UNCHANGED <<wlock, wirelog, senders, slock, readers, inbox, got, hrefs, srefs,
                   ppc, pwhy, thread_num, msg>>
    /\ UNCHANGED <<form, channels, muxCall>>

WriterClone(w) ==
    /\ Count(writers) <= MaxClones
    /\ clone_writer(w)

\* A writer handle is dropped (ThreadedWriter has no Drop impl: its Arcs are
\* released).
WriterDrop(w) ==
    /\ writers[w].pc = "idle"
    /\ writers' = [writers EXCEPT ![w].pc = "dropped"]
    /\ channels' = IF \A v \in DOMAIN writers : v # w => WriterGone(v)
                   THEN close_all(channels) ELSE channels
    /\ UNCHANGED <<count, wlock, wirelog, senders, slock, readers, inbox, got,
                   hrefs, srefs, ppc, pwhy, thread_num, msg>>
    /\ UNCHANGED <<form, muxCall>>

\* The write calls made so far by the handles 0..k-1.
RECURSIVE Started(_)
Started(k) ==
    IF k = 0 THEN 0
    ELSE Started(k - 1) + writers[k - 1].sent
         + (IF writers[k - 1].pc \in {"lock", "id", "body", "flush", "panicked"} THEN 1 ELSE 0)

\* Mutant: the lock is handed out while another handle holds it.
lock_granted_always(holder) == TRUE

\* Mutex::lock().await returns when nobody holds the lock.
lock_granted(holder) == holder = -1

\* ThreadedWriter::write: let mut writer = self.writer.lock().await; the
\* handle is at position `at` when the lock is granted to it.
write_lock(w, at) ==
    /\ writers[w].pc = at
    /\ lock_granted(wlock)
    /\ wlock' = w
    /\ writers' = [writers EXCEPT ![w].pc = "id"]
    /\ UNCHANGED <<count, wirelog, senders, slock, readers, inbox, got,
                   hrefs, srefs, ppc, pwhy, thread_num, msg>>
    /\ UNCHANGED <<form, channels, muxCall>>

\* write is called when the lock can be had at once.
WriteLock(w) ==
    /\ Started(Count(writers)) < MaxMsgs
    /\ write_lock(w, "idle")

\* Mutant: the guard outlives the call.
guard_kept(holder, ok, next) == holder

\* The MutexGuard `writer` is a local of write: it is dropped, and the lock
\* released, when write returns (after flush) or unwinds (a failed unwrap).
guard_after(holder, ok, next) == IF ~ok \/ next = "idle" THEN -1 ELSE holder

\* A step of write made under the lock; a failed step panics (unwrap), which
\* drops the guard and the handle.
WriteStep(w, r, next) ==
    /\ channels' = IF ~r.res.ok /\ \A v \in DOMAIN writers : v # w => WriterGone(v)
                   THEN close_all(r.chans) ELSE r.chans
    /\ writers' = [writers EXCEPT
                     ![w].pc = IF ~r.res.ok THEN "panicked" ELSE next,
                     ![w].sent = IF r.res.ok /\ next = "idle" THEN @ + 1 ELSE @]
    /\ wlock' = guard_after(wlock, r.res.ok, next)

\* writer.write(&[self.num]).await.unwrap();
WriteId(w) ==
    /\ writers[w].pc = "id"
    /\ \E mode \in Modes :
         \E r \in {imux_write(channels, Lit(<<writers[w].num>>), mode)} :
             WriteStep(w, r, "body")
    /\ wirelog' = IF writers'[w].pc = "body"
                  THEN Append(wirelog, [by |-> w, kind |-> "id",
                                        msg |-> Lit(<<writers[w].num>>)])
                  ELSE wirelog
    /\ UNCHANGED <<count, senders, slock, readers, inbox, got,
                   hrefs, srefs, ppc, pwhy, thread_num, msg>>
    /\ UNCHANGED <<form, muxCall>>

\* writer.write(buf).await.unwrap();
WriteBody(w) ==
    /\ writers[w].pc = "body"
    /\ \E mode \in Modes :
         \E r \in {imux_write(channels, Body(writers[w].num, writers[w].sent), mode)} :
             WriteStep(w, r, "flush")
    /\ wirelog' = IF writers'[w].pc = "flush"
                  THEN Append(wirelog, [by |-> w, kind |-> "body",
                                        msg |-> Body(writers[w].num, writers[w].sent)])
                  ELSE wirelog
    /\ UNCHANGED <<count, senders, slock, readers, inbox, got,
                   hrefs, srefs, ppc, pwhy, thread_num, msg>>
    /\ UNCHANGED <<form, muxCall>>

\* writer.flush().await.unwrap(); and the guard goes out of scope.
WriteFlush(w) ==
    /\ writers[w].pc = "flush"
    /\ \E r \in {imux_flush(channels)} : WriteStep(w, r, "idle")
    /\ UNCHANGED <<count, wirelog, senders, slock, readers, inbox, got,
                   hrefs, srefs, ppc, pwhy, thread_num, msg>>
    /\ UNCHANGED <<form, muxCall>>

\* The connections fail (the network, or the remote process, goes away).
Disconnect ==
    /\ faults < 1
    /\ \E i \in Chan : channels[i].open
    /\ channels' = close_all(channels)
    /\ faults' = faults + 1
    /\ UNCHANGED <<form, wpc, wbuf, whdr, wres, worder, wret, fret,
                   rpc, rhdr, rbuf, rres, rorder, rret>>
    /\ UNCHANGED thrVars

PumpStopped == ppc \in {"exited", "panicked"}

\* The pump task ends (returns or unwinds): its locals are dropped.
PumpEnds(how, why) ==
    /\ ppc' = how
    /\ pwhy' = why
    /\ srefs' = srefs - 1
    /\ slock' = IF slock = "pump" THEN "free" ELSE slock

\* while let Ok(thread_num) = reader.read().await
PumpReadId ==
    /\ ppc = "read_id"
    /\ LET r == imux_read(channels) IN
         /\ r.ready
         /\ channels' = r.chans
         /\ IF r.res.ok
            THEN /\ thread_num' = r.buf
                 /\ ppc' = "read_body"
                 /\ UNCHANGED <<pwhy, srefs, slock>>
            ELSE /\ PumpEnds("exited", "read")
                 /\ UNCHANGED thread_num
    /\ UNCHANGED <<count, writers, wlock, wirelog, senders, readers, inbox, got,
                   hrefs, msg>>
    /\ UNCHANGED <<form, muxCall>>

\* let msg = reader.read().await.unwrap();
PumpReadBody ==
    /\ ppc = "read_body"
    /\ LET r == imux_read(channels) IN
         /\ r.ready
         /\ channels' = r.chans
         /\ IF r.res.ok
            THEN /\ msg' = r.buf
                 /\ ppc' = "lock"
                 /\ UNCHANGED <<pwhy, srefs, slock>>
            ELSE /\ PumpEnds("panicked", "body")
                 /\ UNCHANGED msg
    /\ UNCHANGED <<count, writers, wlock, wirelog, senders, readers, inbox, got,
                   hrefs, thread_num>>
    /\ UNCHANGED <<form, muxCall>>

\* let senders_lock = senders.lock().await;
PumpLock ==
    /\ ppc = "lock"
    /\ slock = "free"
    /\ slock' = "pump"
    /\ ppc' = "send"
    /\ UNCHANGED <<count, writers, wlock, wirelog, senders, readers, inbox, got,
                   hrefs, srefs, pwhy, thread_num, msg>>
    /\ UNCHANGED <<form, channels, muxCall>>

\* Mutant: every message is routed to the first inbox.
route_first(id) == 0

\* thread_num[0] as usize
route(id) == Bytes(id)[1]

\* Mutant: an index past the end of the registry is taken for index 0.
slot_or_first(id, vec) == IF route(id) \in DOMAIN vec THEN route(id) ELSE 0

\* senders_lock[thread_num[0] as usize]: the slot of the registry that is
\* indexed, -1 when the index is out of bounds (Index::index panics).
slot(id, vec) == IF route(id) \in DOMAIN vec THEN route(id) ELSE -1

\* Mutant: the guard outlives the iteration of the loop.
senders_lock_kept(holder) == holder

\* senders_lock is a local of the loop body: it is dropped, and the registry
\* lock released, at the end of every iteration.
senders_lock_after(holder) == "free"

\* senders_lock[thread_num[0] as usize].send(msg).await.unwrap(); the guard is
\* dropped at the end of the iteration.  Indexing an empty thread_num or past
\* the registry panics; send is Err when the inbox's Receiver was dropped.
PumpSend ==
    /\ ppc = "send"
    /\ IF thread_num = << >>
       THEN PumpEnds("panicked", "empty") /\ UNCHANGED inbox
       ELSE IF slot(thread_num, senders) = -1
       THEN PumpEnds("panicked", "index") /\ UNCHANGED inbox
       ELSE IF readers[senders[slot(thread_num, senders)]] = "dropped"
       THEN PumpEnds("panicked", "send") /\ UNCHANGED inbox
       ELSE /\ inbox' = [inbox EXCEPT ![senders[slot(thread_num, senders)]] = Append(@, msg)]
            /\ ppc' = "read_id"
            /\ slock' = senders_lock_after(slock)
            /\ UNCHANGED <<pwhy, srefs>>
    /\ UNCHANGED <<count, writers, wlock, wirelog, senders, readers, got,
                   hrefs, thread_num, msg>>
    /\ UNCHANGED <<form, channels, muxCall>>

\* impl Clone for ThreadedReader, called on handle r: the new channel is made
\* and the registry lock is asked for.
reader_clone_start(r) ==
    /\ readers[r] = "idle"
    /\ readers' = [readers EXCEPT ![r] = "cloning"]
    /\ UNCHANGED <<count, writers, wlock, wirelog, senders, slock, inbox, got,
                   hrefs, srefs, ppc, pwhy, thread_num, msg>>
    /\ UNCHANGED <<form, channels, muxCall>>

ReaderCloneStart(r) ==
    /\ Count(readers) + Cardinality({h \in DOMAIN readers : readers[h] = "cloning"})
         <= MaxClones
    /\ reader_clone_start(r)

\* task::block_on(async { self.senders.lock().await.push(sender) }); then the
\* new handle is built with the Receiver and clones of both Arcs.  A handle is
\* named by the index of its Sender in the registry.
ReaderCloneRegister(r) ==
    /\ readers[r] = "cloning"
    /\ slock = "free"
    /\ senders' = Push(senders, Count(readers))
    /\ readers' = Push([readers EXCEPT ![r] = "idle"], "idle")
    /\ inbox' = Push(inbox, << >>)
    /\ got' = Push(got, << >>)
    /\ hrefs' = hrefs + 1
    /\ srefs' = srefs + 1
    /\ UNCHANGED <<count, writers, wlock, wirelog, slock,
                   ppc, pwhy, thread_num, msg>>
    /\ UNCHANGED <<form, channels, muxCall>>

\* ThreadedReader::read is called: self.receiver.recv().await
ReadStart(r) ==
    /\ readers[r] = "idle"
    /\ readers' = [readers EXCEPT ![r] = "reading"]
    /\ UNCHANGED <<count, writers, wlock, wirelog, senders, slock, inbox, got,
                   hrefs, srefs, ppc, pwhy, thread_num, msg>>
    /\ UNCHANGED <<form, channels, muxCall>>

\* Mutant: the newest message of the queue is handed out.
receiver_recv_newest(q) == [item |-> q[Len(q)], rest |-> SubSeq(q, 1, Len(q) - 1)]

\* Receiver::recv() on a queue that is not empty: the oldest message, and
\* the queue after it.
receiver_recv(q) == [item |-> Head(q), rest |-> Tail(q)]

\* recv() returns: a queued message, or Err once the queue is empty and every
\* Sender is gone (the registry was dropped), which unwrap turns into a panic.
ReadFinish(r) ==
    /\ readers[r] = "reading"
    /\ inbox[r] # << >> \/ srefs = 0
    /\ IF inbox[r] # << >>
       THEN /\ got' = [got EXCEPT ![r] = Append(@, receiver_recv(inbox[r]).item)]
            /\ inbox' = [inbox EXCEPT ![r] = receiver_recv(inbox[r]).rest]
            /\ readers' = [readers EXCEPT ![r] = "idle"]
       ELSE /\ readers' = [readers EXCEPT ![r] = "panicked"]
            /\ UNCHANGED <<got, inbox>>
    /\ UNCHANGED <<count, writers, wlock, wirelog, senders, slock,
                   hrefs, srefs, ppc, pwhy, thread_num, msg>>
    /\ UNCHANGED <<form, channels, muxCall>>

\* Arc::get_mut(&mut self.handle) is Some when no other Arc points to the
\* JoinHandle.
is_unique(refs) == refs = 1

\* impl Drop for ThreadedReader: match Arc::get_mut(&mut self.handle)
DropCheck(r) ==
    /\ readers[r] = "idle"
    /\ readers' = [readers EXCEPT ![r] = IF is_unique(hrefs) THEN "joining" ELSE "dropping"]
    /\ UNCHANGED <<count, writers, wlock, wirelog, senders, slock, inbox, got,
                   hrefs, srefs, ppc, pwhy, thread_num, msg>>
    /\ UNCHANGED <<form, channels, muxCall>>

\* Some(h) => task::block_on(async { h.await }) returns once the pump ended.
DropJoin(r) ==
    /\ readers[r] = "joining"
    /\ PumpStopped
    /\ readers' = [readers EXCEPT ![r] = "dropping"]
    /\ UNCHANGED <<count, writers, wlock, wirelog, senders, slock, inbox, got,
                   hrefs, srefs, ppc, pwhy, thread_num, msg>>
    /\ UNCHANGED <<form, channels, muxCall>>

\* After drop() the fields are dropped: the Arc of the registry, the Receiver
\* (its queue is closed and emptied), the Arc of the JoinHandle.
DropFields(r) ==
    /\ readers[r] = "dropping"
    /\ readers' = [readers EXCEPT ![r] = "dropped"]
    /\ inbox' = [inbox EXCEPT ![r] = << >>]
    /\ srefs' = srefs - 1
    /\ hrefs' = hrefs - 1
    /\ UNCHANGED <<count, writers, wlock, wirelog, senders, slock, got,
                   ppc, pwhy, thread_num, msg>>
    /\ UNCHANGED <<form, channels, muxCall>>

NextThreaded ==
    \/ \E w \in DOMAIN writers : WriterClone(w)
    \/ \E w \in DOMAIN writers : WriterDrop(w)
    \/ \E w \in DOMAIN writers : WriteLock(w)
    \/ \E w \in DOMAIN writers : WriteId(w)
    \/ \E w \in DOMAIN writers : WriteBody(w)
    \/ \E w \in DOMAIN writers : WriteFlush(w)
    \/ Disconnect
    \/ PumpReadId
    \/ PumpReadBody
    \/ PumpLock
    \/ PumpSend
    \/ \E r \in DOMAIN readers : ReaderCloneStart(r)
    \/ \E r \in DOMAIN readers : ReaderCloneRegister(r)
    \/ \E r \in DOMAIN readers : ReadStart(r)
    \/ \E r \in DOMAIN readers : ReadFinish(r)
    \/ \E r \in DOMAIN readers : DropCheck(r)
    \/ \E r \in DOMAIN readers : DropJoin(r)
    \/ \E r \in DOMAIN readers : DropFields(r)

SpecThreaded == InitThreaded /\ [][NextThreaded]_vars

Handles == 0..MaxClones

\* The reader's side is scheduled fairly: a call on a reader handle that can
\* go on does go on (the thread making it runs), and the pump forwards the
\* message it has read (the executor runs the task).  Nothing is required of
\* the peer, of the connections, or of the application starting new calls.
FairThreaded ==
    /\ SpecThreaded
    /\ WF_vars(PumpLock)
    /\ WF_vars(PumpSend)
    /\ WF_vars(\E r \in DOMAIN readers : ReaderCloneRegister(r))
    /\ WF_vars(\E r \in DOMAIN readers : ReadFinish(r))
    /\ WF_vars(\E r \in DOMAIN readers : DropJoin(r))
    /\ WF_vars(\E r \in DOMAIN readers : DropFields(r))

(***************************************************************************)
(* Longer exchanges between handles that stay alive over connections that  *)
(* stay up: MaxFifoMsgs write calls in all, by the original and its clone. *)
(***************************************************************************)

MaxFifoMsgs == 3

\* ThreadedWriter::write is called on handle w, whoever holds the lock.
FifoWriteCall(w) ==
    /\ writers[w].pc = "idle"
    /\ Started(Count(writers)) < MaxFifoMsgs
    /\ writers' = [writers EXCEPT ![w].pc = "lock"]
    /\ UNCHANGED <<count, wlock, wirelog, senders, slock, readers, inbox, got,
                   hrefs, srefs, ppc, pwhy, thread_num, msg>>
    /\ UNCHANGED <<form, channels, muxCall>>

\* The waiting call gets the lock.
FifoWriteLock(w) == write_lock(w, "lock")

NextFifo ==
    \/ \E w \in DOMAIN writers : WriterClone(w)
    \/ \E w \in DOMAIN writers : FifoWriteCall(w)
    \/ \E w \in DOMAIN writers : FifoWriteLock(w)
    \/ \E w \in DOMAIN writers : WriteId(w)
    \/ \E w \in DOMAIN writers : WriteBody(w)
    \/ \E w \in DOMAIN writers : WriteFlush(w)
    \/ PumpReadId
    \/ PumpReadBody
    \/ PumpLock
    \/ PumpSend
    \/ \E r \in DOMAIN readers : ReaderCloneStart(r)
    \/ \E r \in DOMAIN readers : ReaderCloneRegister(r)
    \/ \E r \in DOMAIN readers : ReadStart(r)
    \/ \E r \in DOMAIN readers : ReadFinish(r)

SpecFifo == InitThreaded /\ [][NextFifo]_vars

\* The writer's side is scheduled fairly: a write call that can take its
\* next step (the lock is free, the streams accept data) takes it.
FairFifo ==
    /\ SpecFifo
    /\ \A w \in Handles :
          /\ WF_vars(w \in DOMAIN writers /\ FifoWriteLock(w))
          /\ WF_vars(w \in DOMAIN writers /\ WriteId(w))
          /\ WF_vars(w \in DOMAIN writers /\ WriteBody(w))
          /\ WF_vars(w \in DOMAIN writers /\ WriteFlush(w))

(***************************************************************************)
(* A long lineage of writer handles: clone calls up to the width of the    *)
(* identity counter and past it.                                           *)
(***************************************************************************)

MaxLineage == 256
MaxLineageDrops == 1

LineageClone(w) ==
    /\ Count(writers) <= MaxLineage
    /\ clone_writer(w)

\* The handles dropped along the way are early clones.
LineageDrop(w) ==
    /\ w \in 1..MaxLineageDrops
    /\ WriterDrop(w)

\* The counter is shared by the lineage, so the identity a clone gets does not
\* depend on the handle it is made from: the original or the newest one.
NextIdentity ==
    \/ \E w \in {0, Count(writers) - 1} : LineageClone(w)
    \/ \E w \in DOMAIN writers : LineageDrop(w)

SpecIdentity == InitThreaded /\ [][NextIdentity]_vars

\* The two lineages cloned in step, as the types require of their user: the
\* writer is cloned, then the peer's reader, each from its newest handle.
NextAligned ==
    \/ /\ Count(senders) = Count(writers)
       /\ LineageClone(Count(writers) - 1)
    \/ /\ Count(senders) < Count(writers)
       /\ reader_clone_start(Count(readers) - 1)
    \/ \E r \in DOMAIN readers : ReaderCloneRegister(r)

SpecAligned == InitThreaded /\ [][NextAligned]_vars

(***************************************************************************)
(* Properties of the multiplexer (checked under Spec)                      *)
(***************************************************************************)

\* The errors that occurred in a call: its header result and unit results.
Errors(hdr, res) ==
    (IF hdr.ok \/ hdr = NoRet THEN {} ELSE {hdr})
    \cup { res[i] : i \in { j \in DOMAIN res : ~res[j].ok /\ res[j] # Pending } }

AllOk(hdr, res) == hdr.ok /\ \A i \in DOMAIN res : res[i].ok

WriteReturned == wpc \in {"flush", "done", "failed"}
ReadReturned == rpc = "done"

\* C1 (round-trip identity): over channels that stay open, in both forms and
\* for every completion order of the units, a read on the peer returns, it
\* returns Ok, and its buffer is exactly the buffer given to write.
C1_RoundTrip ==
    (ReadReturned /\ faults = 0) => (rret.ok /\ rbuf = wbuf)

\* C1 witness: a two-chunk message was read back in the concurrent form with
\* the second channel's chunk completing first.
C1_Witness ==
    /\ ReadReturned /\ faults = 0 /\ form = "async"
    /\ BLen(wbuf) > MIN_CHUNK_SIZE
    /\ rorder = <<1, 0>>
    /\ rret.ok /\ rbuf = wbuf

\* C2 (failure propagation, parallel form), as claimed: when a unit of an
\* IMuxSync read or write failed, the call returns a failure.
C2_SyncFailurePropagates ==
    /\ (form = "sync" /\ ReadReturned /\ \E i \in DOMAIN rres : ~rres[i].ok)
          => ~rret.ok
    /\ (form = "sync" /\ WriteReturned /\ \E i \in DOMAIN wres : ~wres[i].ok)
          => ~wret.ok

\* C3 (failure propagation, concurrent form): an IMuxAsync read or write
\* returns Ok exactly when the header transfer and every unit succeeded;
\* otherwise it returns one of the errors that occurred, and read hands no
\* buffer to the caller.
C3_AsyncFailurePropagates ==
    /\ (form = "async" /\ ReadReturned) =>
          /\ rret.ok <=> AllOk(rhdr, rres)
          /\ ~rret.ok => (rret \in Errors(rhdr, rres) /\ rbuf = << >>)
    /\ (form = "async" /\ WriteReturned) =>
          /\ wret.ok <=> AllOk(whdr, wres)
          /\ ~wret.ok => wret \in Errors(whdr, wres)

\* C3 witness: two units of one concurrent read failed and the call returned
\* the error of the one that completed first.
C3_Witness ==
    /\ form = "async" /\ ReadReturned
    /\ Cardinality(Errors(rhdr, rres)) = 2
    /\ ~rret.ok /\ rret = rres[rorder[1]] /\ rorder[1] = 1

\* The number of byte positions in the ranges of the units in set S.
RECURSIVE Covered(_, _)
Covered(t, S) ==
    IF S = {} THEN 0
    ELSE LET i == CHOOSE j \in S : TRUE IN (t[i].hi - t[i].lo) + Covered(t, S \ {i})

\* The units started for a buffer of the given length cover it exactly: each
\* has the range [i*cs, min((i+1)*cs, len)), a non-empty part of [0, len);
\* no two ranges share a position; and together they hold len positions, so
\* (being disjoint parts of [0, len)) their union is [0, len).
Covers(res, len) ==
    LET t == zip_chunks(N, len)
        cs == chunk_size(N, len) IN
    /\ DOMAIN res \subseteq Chan
    /\ \A i \in DOMAIN res :
          /\ t[i].lo = i * cs /\ t[i].hi = Min((i + 1) * cs, len)
          /\ 0 <= t[i].lo /\ t[i].lo < t[i].hi /\ t[i].hi <= len
    /\ \A i, j \in DOMAIN res : i # j => (t[i].hi <= t[j].lo \/ t[j].hi <= t[i].lo)
    /\ Covered(t, DOMAIN res) = len
    /\ Len(chunks(len, cs)) <= N

JustStarted(res) == \A i \in DOMAIN res : res[i] = Pending

\* C10 (chunk coverage): the ranges of the units that write and read start
\* for channels 0..n-1 are [i*chunk_size, min((i+1)*chunk_size, len)), they
\* are pairwise disjoint, their union is [0, len), and there are never more
\* chunks than channels.
C10_ChunkCoverage ==
    /\ (wpc = "chunks" /\ JustStarted(wres)) => Covers(wres, BLen(wbuf))
    /\ (rpc = "chunks" /\ JustStarted(rres)) => Covers(rres, BLen(rbuf))

\* C10 witness: a write whose plan uses every channel, with a short last
\* chunk, has started its units.
C10_Witness ==
    /\ wpc = "chunks" /\ JustStarted(wres)
    /\ N >= 2 /\ DOMAIN wres = Chan
    /\ BLen(wbuf) % chunk_size(N, BLen(wbuf)) # 0

Failed(res) == {i \in DOMAIN res : res[i] # Pending /\ ~res[i].ok}

\* C14: when two or more units of a call have failed and no unit is still
\* running, the call returns to its caller with a Result (in both forms);
\* the model has no step of read or write that panics.
C14_MultiFailureReturns ==
    /\ (rpc = "chunks" /\ Cardinality(Failed(rres)) >= 2
           /\ \A i \in DOMAIN rres : rres[i] # Pending)
         ~> (rpc = "done" /\ rret # NoRet /\ rret # Pending)
    /\ (wpc = "chunks" /\ Cardinality(Failed(wres)) >= 2
           /\ \A i \in DOMAIN wres : wres[i] # Pending)
         ~> (WriteReturned /\ wret # NoRet /\ wret # Pending)

C14_Witness ==
    /\ form = "async"
    /\ rpc = "done" /\ Cardinality(Failed(rres)) = 2 /\ ~rret.ok
    /\ wpc = "failed" /\ Cardinality(Failed(wres)) = 2 /\ ~wret.ok

\* All the bytes stream i has accepted, while the peer has read nothing.
Sent(i) == Cat(channels[i].wire, channels[i].out)

\* The little-endian encoding of a length below 2^24, written out.
Header(len) == <<len % 256, (len \div 256) % 256, (len \div 65536) % 256, 0, 0, 0, 0, 0>>

\* The range of channel i by the chunk plan, empty past the end of the message.
RangeOf(i, len) ==
    LET cs == Max(MIN_CHUNK_SIZE, CeilDiv(len, N))
    IN  [lo |-> Min(i * cs, len), hi |-> Min((i + 1) * cs, len)]

\* C13: after a write over channels that stay open, channel 0 has been given
\* the 8 bytes of len, least significant first, followed by the bytes of its
\* range, every other channel the bytes of its range and nothing else,
\* nothing at all when the range is empty.
C13_WireFormat ==
    (WriteReturned /\ faults = 0 /\ rpc = "read") =>
        LET len == BLen(wbuf) IN
        /\ Bytes(Take(Sent(0), 8)) = Header(len)
        /\ Drop(Sent(0), 8) = Slice(wbuf, RangeOf(0, len).lo, RangeOf(0, len).hi)
        /\ \A i \in Chan \ {0} :
              Sent(i) = Slice(wbuf, RangeOf(i, len).lo, RangeOf(i, len).hi)
        /\ \A i \in Chan \ {0} : i * MIN_CHUNK_SIZE >= len => Sent(i) = << >>

C13_Witness ==
    /\ wpc = "done" /\ faults = 0 /\ rpc = "read" /\ N = 2 /\ form = "sync"
    /\ BLen(wbuf) = MIN_CHUNK_SIZE + 1
    /\ BLen(channels[0].wire) = 8 + MIN_CHUNK_SIZE
    /\ channels[1].wire = <<PayloadRun(0, MIN_CHUNK_SIZE, MIN_CHUNK_SIZE + 1)>>

\* C12: a flush() call flushes every channel once, also the channels after
\* one whose flush failed, and returns Ok exactly when every channel's flush
\* succeeded.
C12_FlushAll ==
    [][Flush =>
         /\ \A i \in Chan : channels'[i].flushes = channels[i].flushes + 1
         /\ fret'.ok <=> \A i \in Chan : flush_stream(channels[i], i).res.ok]_vars

C12_Witness ==
    /\ wpc = "done" /\ N = 2
    /\ ~channels[0].open /\ channels[1].open
    /\ ~fret.ok /\ fret.ch = 0
    /\ channels[0].flushes = 1 /\ channels[1].flushes = 1
    /\ channels[1].out = << >> /\ channels[1].wire # << >>

\* C11: with counters zeroed (fresh channels, or reset() after earlier
\* traffic), once a write of len bytes has returned Ok and flush has been
\* called, count(), the sum of the channels' counters, is 8 + len.
C11_CountingAccuracy ==
    (wpc = "done" /\ wret.ok) => mux_count(channels) = 8 + BLen(wbuf)

(***************************************************************************)
(* Properties of the threaded layer (checked under SpecThreaded,           *)
(* FairThreaded and SpecIdentity)                                          *)
(***************************************************************************)

IsPrefix(a, b) == Len(a) <= Len(b) /\ \A i \in 1..Len(a) : a[i] = b[i]

Project(log) == [i \in 1..Len(log) |-> log[i].msg]

\* The bodies put on the wire by the writer handles of identity j, in order.
BodiesOf(j) ==
    LET Mine(e) == e.kind = "body" /\ writers[e.by].num = j
    IN  Project(SelectSeq(wirelog, Mine))

InWrite(w) == writers[w].pc \in {"id", "body", "flush"}

\* Nothing is left to deliver: the connections did not fail, no write is in
\* progress, nothing is buffered or on the wire, the pump waits for the next
\* message.
Delivered ==
    /\ faults = 0
    /\ \A w \in DOMAIN writers : ~InWrite(w)
    /\ \A i \in Chan : channels[i].out = << >> /\ channels[i].wire = << >>
    /\ ppc = "read_id"

\* C4: reader handle j (registered j-th, as writer j is the j-th handle of its
\* lineage) receives the bodies written by writer handle j, in order, and
\* nothing else, whatever the interleaving of the writes; once everything
\* written has gone through the pump it has received all of them.
C4_Demultiplexing ==
    \A j \in DOMAIN senders :
        LET recv == got[senders[j]] \o inbox[senders[j]] IN
        /\ IsPrefix(recv, BodiesOf(j))
        /\ (Delivered /\ readers[senders[j]] # "dropped") => recv = BodiesOf(j)

C4_Witness ==
    /\ Delivered
    /\ Count(readers) = 2 /\ Count(writers) = 2
    /\ Len(wirelog) = 4 /\ wirelog[1].by = 1 /\ wirelog[3].by = 0
    /\ got[0] = <<Body(0, 0)>>
    /\ got[1] = <<Body(1, 0)>>

C6_IdentitiesIncrease ==
    /\ writers[0].num = 0
    /\ \A w \in DOMAIN writers : w > 0 => writers[w - 1].num < writers[w].num

\* C7: a read call on a handle whose inbox is empty, the pump having ended, is
\* eventually unblocked.
C7_EndOfStream ==
    \A h \in Handles :
        (h \in DOMAIN readers /\ readers[h] = "reading" /\ inbox[h] = << >> /\ PumpStopped)
            ~> (h \in DOMAIN readers /\ readers[h] # "reading")

Live(r) == readers[r] # "dropped"

\* C8: there is no state with no live reader handle, the pump still running
\* and no thread waiting for the pump.
C8_ShutdownJoin ==
    ~ /\ \A r \in DOMAIN readers : ~Live(r)
      /\ ~PumpStopped
      /\ \A r \in DOMAIN readers : readers[r] # "joining"

\* C9: while a reader handle is alive, the drop of a sibling does not stop the
\* pump: the pump is not ended by a message addressed to the dropped handle.
C9_DropLeavesPump ==
    (\E r \in DOMAIN readers : readers[r] \in {"idle", "reading", "cloning"})
        => ~(ppc = "panicked" /\ pwhy = "send")

\* C20: a write call invokes flush on no channel: up to and including its
\* return no channel has been flushed, and the only step that flushes a
\* channel is the flush() call.
C20_WriteNeverFlushes ==
    /\ [](wpc \in {"write", "chunks", "flush", "failed"} =>
              \A i \in Chan : channels[i].flushes = 0)
    /\ [][(\E i \in Chan : channels'[i].flushes # channels[i].flushes) =>
              wpc = "flush" /\ wpc' = "done"]_vars

\* A write over two channels has returned Ok and nothing was flushed.
C20_Witness ==
    /\ wpc = "flush" /\ wret.ok
    /\ DOMAIN wres = {0, 1}
    /\ \A i \in Chan : channels[i].count > 0 /\ channels[i].flushes = 0

\* The transfer of unit i of the read in progress does not wait for bytes.
ReadyUnit(i) ==
    /\ rpc = "chunks" /\ i \in DOMAIN rres /\ rres[i] = Pending
    /\ LET t == zip_chunks(N, BLen(rbuf))[i] IN read_ready(channels[i], t.hi - t.lo)

\* C19: in the concurrent form a unit whose stream is ready finishes its
\* chunk whatever the other units of the call do, one that waits for ever
\* for bytes included; a write unit, which never waits, finishes as well.
C19_SlowChannelIndependence ==
    \A i \in 0..(MaxChannels - 1) :
        /\ (form = "async" /\ ReadyUnit(i))
              ~> (i \in DOMAIN rres /\ rres[i] # Pending)
        /\ (form = "async" /\ wpc = "chunks" /\ i \in DOMAIN wres /\ wres[i] = Pending)
              ~> (i \in DOMAIN wres /\ wres[i] # Pending)

\* Unit 1 has finished while unit 0 still waits for bytes.
C19_Witness ==
    /\ form = "async" /\ rpc = "chunks"
    /\ DOMAIN rres = {0, 1}
    /\ rres[1] # Pending /\ rres[1].ok
    /\ rres[0] = Pending /\ ~ReadyUnit(0)

\* C18: when a read or write call has returned, with success or failure, no
\* unit it started is still running; the concurrent form does not return at
\* the first failed task while another task of the call is pending.
C18_NoUnitOutlives ==
    /\ WriteReturned => \A i \in DOMAIN wres : wres[i] # Pending
    /\ ReadReturned => \A i \in DOMAIN rres : rres[i] # Pending

C18_Witness ==
    /\ form = "async"
    /\ wpc = "failed" /\ Len(worder) = 2 /\ ~wres[worder[1]].ok
    /\ rpc = "done" /\ Len(rorder) = 2 /\ ~rres[rorder[1]].ok

HeaderFailed(hdr) == hdr # NoRet /\ ~hdr.ok

\* C17: the 8 bytes of the header go through channel 0, all of them, before
\* any unit of the call is started; when the header transfer fails the call
\* returns that failure and starts no unit: write has put no byte on any
\* channel, read takes nothing more from any channel.
C17_TwoPhase ==
    /\ [](/\ wpc = "write" => \A i \in Chan : channels[i].count = 0
          /\ DOMAIN wres # {} => whdr.ok
          /\ DOMAIN rres # {} => rhdr.ok
          /\ (wpc = "chunks" /\ \A i \in DOMAIN wres : wres[i] = Pending) =>
                /\ channels[0].count = 8
                /\ \A i \in Chan \ {0} : channels[i].count = 0
          /\ HeaderFailed(whdr) =>
                /\ wpc = "failed" /\ wret = whdr
                /\ channels[0].count <= 8
                /\ \A i \in Chan \ {0} : channels[i].count = 0
          /\ HeaderFailed(rhdr) => rpc = "done" /\ rret = rhdr)
    /\ [][/\ rpc = "read" =>
              /\ \A i \in Chan \ {0} : BLen(channels'[i].wire) >= BLen(channels[i].wire)
              /\ BLen(channels'[0].wire) >= BLen(channels[0].wire) - 8
          /\ HeaderFailed(rhdr) =>
              \A i \in Chan : BLen(channels'[i].wire) >= BLen(channels[i].wire)]_vars

C17_Witness ==
    /\ N = 2
    /\ HeaderFailed(whdr) /\ wpc = "failed"
    /\ HeaderFailed(rhdr) /\ rpc = "done"

\* C16: a constructed multiplexer has at least one channel (and no call
\* changes the number or the order of its channels).
C16_ChannelSet == N >= 1

\* C15: when a read made by the pump fails, of the identity message or of
\* the body message, the pump leaves its loop normally (read_loop returns),
\* and nothing is delivered for the incomplete pair.
C15_PumpTerminatesNormally ==
    /\ pwhy \in {"read", "body"} => ppc = "exited"
    /\ pwhy \in {"read", "body"} =>
          \A j \in DOMAIN senders :
              IsPrefix(got[senders[j]] \o inbox[senders[j]], BodiesOf(j))

\* The buffers given to the write calls made so far, the one in progress
\* included, and the buffers the read calls have returned.
Written == [k \in 1..Len(wirelog) |-> wirelog[k].msg] \o <<wbuf>>
Received == got[0] \o (IF rpc = "done" THEN <<rbuf>> ELSE << >>)

\* C21: the read calls return the buffers of the write calls, in order,
\* whatever the lengths (and chunk plans) of the messages and however the
\* units of the calls interleave; no byte is lost or left over: once all
\* that was written is flushed, a waiting read finds its bytes, and once
\* every message is read the channels are empty.
C21_MessageSequence ==
    /\ IsPrefix(Received, Written)
    /\ rpc = "done" => rret.ok
    /\ (wpc = "done" /\ rpc = "read" /\ Len(got[0]) < Len(Written)) =>
          read_ready(channels[0], 8)
    /\ (wpc = "done" /\ rpc = "chunks") =>
          \A i \in DOMAIN rres : rres[i] = Pending => ReadyUnit(i)
    /\ (wpc = "done" /\ Len(Received) = Len(Written)) =>
          \A i \in Chan : channels[i].wire = << >> /\ channels[i].out = << >>

\* Two messages with different chunk plans, the first over all channels and
\* the second over one (or the other way round), have been written and read.
C21_Witness ==
    /\ N = 2 /\ wpc = "done" /\ rpc = "done" /\ rret.ok
    /\ Len(Received) = 2 /\ Received = Written
    /\ BLen(Received[1]) # BLen(Received[2])
    /\ 1 \in {BLen(Received[1]), BLen(Received[2])}
    /\ channels[1].count > 0

\* C22: the step in which the pump forwards a pair whose identity is in the
\* registry appends the body to the inbox of that identity and changes no
\* other inbox; no other step of the pump or of the writers adds to an inbox.
C22_PumpRouting ==
    [][/\ (ppc = "send" /\ ppc' # "send" /\ route(thread_num) \in DOMAIN senders) =>
            inbox' = [inbox EXCEPT ![senders[route(thread_num)]] = Append(@, msg)]
       /\ ppc # "send" =>
            \A r \in DOMAIN inbox : Len(inbox'[r]) <= Len(inbox[r])]_vars

\* C23: what the read calls of a handle have returned is, in order, a prefix
\* of the bodies written for its identity in wire order, whatever the other
\* handles wrote in between; each read call takes the oldest message of the
\* handle's inbox.
C23_PerHandleFifo ==
    /\ [](\A j \in DOMAIN senders : IsPrefix(got[senders[j]], BodiesOf(j)))
    /\ [][\A r \in DOMAIN got :
             got'[r] # got[r] =>
                 /\ inbox[r] # << >>
                 /\ got'[r] = Append(got[r], Head(inbox[r]))
                 /\ inbox'[r] = Tail(inbox[r])]_vars

\* Handle 0 has read its two messages in the order written; on the wire the
\* clone's message went between them, and both were queued before the first
\* read returned.
C23_Witness ==
    /\ Count(writers) = 2 /\ Count(readers) = 2
    /\ Len(wirelog) = 6
    /\ wirelog[1].by = 0 /\ wirelog[3].by = 1 /\ wirelog[5].by = 0
    /\ got[0] = <<Body(0, 0), Body(0, 1)>>
    /\ inbox[1] = <<Body(1, 0)>>

\* C24: when the pump indexes the registry with an identity that is not
\* below the number of registered inboxes, it ends there (a panic) and the
\* body goes to no inbox; from then on the pump takes no step, whatever is
\* registered or arrives later: its position stays, it reads nothing more
\* from the channels, and no inbox gets a message.
C24_RoutingErrorFatal ==
    /\ [][(ppc = "send" /\ ppc' # "send" /\ thread_num # << >>
              /\ route(thread_num) >= Count(senders)) =>
            (ppc' = "panicked" /\ pwhy' = "index" /\ inbox' = inbox)]_vars
    /\ [][pwhy = "index" =>
            /\ ppc' = "panicked" /\ pwhy' = "index"
            /\ thread_num' = thread_num /\ msg' = msg
            /\ \A i \in Chan : BLen(channels'[i].wire) >= BLen(channels[i].wire)
            /\ \A r \in DOMAIN inbox : Len(inbox'[r]) <= Len(inbox[r])]_vars

\* The pump has stopped on identity 1; reader clone 1 was registered
\* afterwards and waits in read, a later message is on the wire, and the
\* inboxes are empty.
C24_Witness ==
    /\ ppc = "panicked" /\ pwhy = "index"
    /\ route(thread_num) = 1 /\ Count(senders) = 2
    /\ readers[1] = "reading"
    /\ Len(wirelog) = 4
    /\ \E i \in Chan : channels[i].wire # << >>
    /\ \A r \in DOMAIN inbox : inbox[r] = << >> /\ got[r] = << >>

\* C25: the writer lock is held only by a handle inside write (it is
\* released when write ends), a handle that waits for the lock waits for
\* another handle that is inside write, and every write call gets the lock
\* and returns, whatever clone and write calls go on meanwhile.
C25_WriterProgress ==
    /\ [](wlock # -1 => (wlock \in DOMAIN writers /\ InWrite(wlock)))
    /\ [](\A w \in DOMAIN writers :
             writers[w].pc = "lock" =>
                 \/ wlock = -1
                 \/ wlock # w /\ InWrite(wlock))
    /\ [][\A w \in DOMAIN writers :
             (writers[w].pc = "flush" /\ writers'[w].pc # "flush") =>
                 /\ writers'[w].pc = "idle"
                 /\ writers'[w].sent = writers[w].sent + 1
                 /\ wlock' = -1]_vars
    /\ \A w \in Handles :
          (w \in DOMAIN writers /\ writers[w].pc = "lock")
             ~> (w \in DOMAIN writers /\ writers[w].pc = "idle" /\ wlock # w)

\* Both handles have called write; the clone holds the lock and handle 0
\* waits for it.
C25_Witness ==
    /\ Count(writers) = 2
    /\ writers[0].pc = "lock" /\ writers[0].sent = 1
    /\ writers[1].pc = "body" /\ wlock = 1

\* The registry as the clone calls leave it: slot j holds the handle made
\* by the j-th registration (the original is 0), with its own inbox.
RegistryInOrder ==
    /\ \A j \in DOMAIN senders : senders[j] = j
    /\ DOMAIN senders = DOMAIN readers /\ DOMAIN inbox = DOMAIN readers

\* C26: every clone call adds one slot at the end of the registry, slots are
\* never moved, removed or reused, and so the index of the j-th reader
\* handle is the identity of the j-th writer handle.
C26_CloneRegistration ==
    /\ RegistryInOrder
    /\ \A j \in DOMAIN senders : j \in DOMAIN writers => writers[j].num = j

\* C27: a message that reaches the pump before the reader clone of its
\* identity is registered does not stop the pump (it waits for the clone).
C27_CloneArrivalRace == ~(ppc = "panicked" /\ pwhy = "index")

\* C28: the pump holds the registry lock only between reading a complete
\* pair and forwarding it, never while it waits on a multiplexer read, so a
\* reader clone call that waits for the lock returns, whether or not another
\* message ever arrives.
C28_PumpLockScope ==
    /\ [](slock = "pump" => ppc = "send")
    /\ [][(slock # "pump" /\ slock' = "pump") =>
            (ppc = "lock" /\ thread_num' = thread_num /\ msg' = msg
               /\ channels' = channels)]_vars
    /\ [][(ppc = "send" /\ ppc' # "send") => slock' = "free"]_vars
    /\ \A r \in Handles :
         (r \in DOMAIN readers /\ readers[r] = "cloning")
            ~> (r \in DOMAIN readers /\ readers[r] # "cloning")

\* A clone call waits for the registry lock while the pump holds it with a
\* pair to forward, and nothing else is on the wire.
C28_Witness ==
    /\ slock = "pump" /\ ppc = "send"
    /\ \E r \in DOMAIN readers : readers[r] = "cloning"
    /\ \A i \in Chan : channels[i].wire = << >> /\ channels[i].out = << >>

====
